---------------------------- MODULE Spec2Model ----------------------------
(***************************************************************************)
(* A model of diffrt: the scalar reverse-mode autograd engine              *)
(* (src/src/autograd.h), the Vec3 algebra on top of it (src/src/rtmath.h), *)
(* the path-tracing integrator and the training loop (src/src/main.cc).    *)
(*                                                                         *)
(* Float_t values are modelled on the integer grid: every arithmetic       *)
(* result is exact where the reals give an integer and rounded toward      *)
(* zero otherwise; NaN is a distinguished value that every operation       *)
(* propagates.                                                             *)
(***************************************************************************)
EXTENDS Integers, Sequences, FiniteSets, TLC

VARIABLES
  tape,        \* Seq of Ctx: [value, grad, fn]; the index is the Ctx identity
  diag,        \* the diagnostic written before exit(1); "" while the process runs
  refTape,     \* the never-short-circuiting reference engine: Seq of [grad, fn]
  refAborted,  \* TRUE once the reference engine has called exit(1)
  origin,      \* history: how each Ctx was made: "leaf", "op" or "op_inert"
  lateToggle,  \* history: requires_grad hit a short-circuited result or its operand
  calls,       \* number of update/zero_grad/requires_grad/backward/step calls made
  refs,        \* Float objects: Seq of Ctx identities (the _ctx shared_ptr of each)
  ident,       \* history: for each Float object, the Float it is a copy of
  params,      \* optimizer parameter list: Seq of Ctx identities
  pident,      \* history: for each parameter entry, the Float it was registered from
  vecs,        \* Vec3 objects: Seq of [x, y, z], the Ctx of each component
  rays,        \* Ray objects: Seq of [o, d], indices into vecs
  mats,        \* Scene materials: Seq of [emission, kd, ks, kr, prob_d, prob_s, prob_r]
  lights,      \* Scene point lights: Seq of [pow, occluded]
  image,       \* the pixels render has stored so far: Seq of radiance triples
  job,         \* the render call in progress: [st, depth, spp, s, L, scat]
  pc,          \* position of main in the training loop
  iter,        \* the loop counter i of main
  snap,        \* history: the parameter values the last forward render read
  events,      \* history: the events of the current loop iteration, in order
  held,        \* what main's pred buffer and loss variable refer to: [pred, loss]
  hyper,       \* optim::SGD's lr, lambda and momentum: [made, lr, lambda, momentum]
  vel,         \* optim::SGD::v, one velocity per registered parameter
  sel,         \* the last Material::rr call: [n, m, w, lobe, prob]
  prims,       \* Scene::objects as one ray sees them: Seq of [acc, t, n, mat]
  scan,        \* the last Scene::intersect call: [ret, hit], hit the caller's record
  gen,         \* uniform's static generator: [made, s], s its engine state
  cam,         \* the render call of the camera: [st, w, h, spp, x, y, s, buf]
  frames       \* the finished renders: Seq of Seq of camera samples

agVars == <<tape, diag, refTape, refAborted, origin, lateToggle, calls>>
shVars == <<refs, ident, params, pident>>
vcVars == <<vecs, rays>>
rdVars == <<mats, lights, image, job>>
trVars == <<pc, iter, snap, events, held>>
opVars == <<hyper, vel>>
scVars == <<sel, prims, scan>>
cmVars == <<gen, cam, frames>>
appVars == <<rdVars, trVars, opVars, scVars, cmVars>>
nonAg == <<shVars, vcVars, appVars>>
vars == <<tape, diag, refTape, refAborted, origin, lateToggle, calls, refs, ident, params, pident,
          vecs, rays, mats, lights, image, job, pc, iter, snap, events, held,
          hyper, vel, sel, prims, scan, gen, cam, frames>>

---------------------------------------------------------------------------
(* Bounds of the model *)
MaxNodes == 3
MaxVal == 8
MaxGrad == 24
MaxCalls == 3

---------------------------------------------------------------------------
(* Float_t arithmetic *)

NaN == -1000000

IsNaNv(v) == v = NaN

Abs(x) == IF x < 0 THEN -x ELSE x

\* rounding toward zero of the real quotient a / b, b # 0
TDiv(a, b) ==
  IF (a >= 0) = (b > 0) THEN Abs(a) \div Abs(b) ELSE -(Abs(a) \div Abs(b))

RECURSIVE IPow(_, _)
IPow(v, k) == IF k = 0 THEN 1 ELSE v * IPow(v, k - 1)

\* nearest integer to the real square root of v >= 0
ISqrt(v) ==
  CHOOSE r \in 0..v : (r = 0 \/ 4*r*r - 4*r + 1 <= 4*v) /\ 4*v < 4*r*r + 4*r + 1

CosTable == <<1, 1, 0, -1, -1, 0, 1, 1, 0, -1, -1, 0, 1>>
SinTable == <<0, 1, 1, 0, -1, -1, 0, 1, 1, 0, -1, -1, -1>>

FAdd(a, b) == IF IsNaNv(a) \/ IsNaNv(b) THEN NaN ELSE a + b
FSub(a, b) == IF IsNaNv(a) \/ IsNaNv(b) THEN NaN ELSE a - b
FMul(a, b) == IF IsNaNv(a) \/ IsNaNv(b) THEN NaN ELSE a * b
\* 0/0 is NaN; x/0 is an infinity, which the zero checks of operator/ and
\* DivBackwardFn keep from ever being computed
FDiv(a, b) == IF IsNaNv(a) \/ IsNaNv(b) \/ b = 0 THEN NaN ELSE TDiv(a, b)
FNeg(a) == IF IsNaNv(a) THEN NaN ELSE -a
FPow(a, k) == IF IsNaNv(a) THEN NaN ELSE IPow(a, k)
FSqrt(a) == IF IsNaNv(a) \/ a < 0 THEN NaN ELSE ISqrt(a)
FCos(a) == IF IsNaNv(a) THEN NaN ELSE CosTable[Abs(a) + 1]
FSin(a) == IF IsNaNv(a) THEN NaN ELSE IF a < 0 THEN -SinTable[-a + 1] ELSE SinTable[a + 1]

\* a value the model represents: NaN, or a number within the bound
InRange(v, bound) == IsNaNv(v) \/ (-bound <= v /\ v <= bound)


---------------------------------------------------------------------------
(* Backward descriptors (BackwardFn subclasses) and the Ctx record *)

NoneFn == [op |-> "None", l |-> 0, r |-> 0, e2 |-> 0]
AccFn(c) == [op |-> "Acc", l |-> c, r |-> 0, e2 |-> 0]
UnaryFn(op, a, e2) == [op |-> op, l |-> a, r |-> 0, e2 |-> e2]
BinaryFn(op, a, b) == [op |-> op, l |-> a, r |-> b, e2 |-> 0]

Ctx(v, fn) == [value |-> v, grad |-> 0, fn |-> fn]

is_acc_fn(T, c) == T[c].fn.op = "Acc"
is_none_fn(T, c) == T[c].fn.op = "None"
is_leaf_always(T, c) == TRUE
is_leaf(T, c) == is_acc_fn(T, c) \/ is_none_fn(T, c)

Ids(T) == 1..Len(T)

\* the descriptor an operation gives its result: none_fn when every operand
\* is none_fn, otherwise a node holding the operands
BinResultFnEither(T, op, a, b) ==
  IF is_none_fn(T, a) \/ is_none_fn(T, b) THEN NoneFn ELSE BinaryFn(op, a, b)
BinResultFn(T, op, a, b) ==
  IF is_none_fn(T, a) /\ is_none_fn(T, b) THEN NoneFn ELSE BinaryFn(op, a, b)

UnResultFn(T, op, a, e2) ==
  IF is_none_fn(T, a) THEN NoneFn ELSE UnaryFn(op, a, e2)

BinOps == {"Add", "Sub", "Mul", "Div"}
UnOps == {"Neg", "Pow", "Cos", "Sin"}

BinValue(op, x, y) ==
  CASE op = "Add" -> FAdd(x, y)
    [] op = "Sub" -> FSub(x, y)
    [] op = "Mul" -> FMul(x, y)
    [] op = "Div" -> FDiv(x, y)

\* e2 is twice the exponent of pow: 1 for sqrt(), 2k for pow(k)
UnValue(op, x, e2) ==
  CASE op = "Neg" -> FNeg(x)
    [] op = "Pow" -> IF e2 = 1 THEN FSqrt(x) ELSE FPow(x, e2 \div 2)
    [] op = "Cos" -> FCos(x)
    [] op = "Sin" -> FSin(x)

\* operator/ exits on a zero divisor before it builds anything
DivByZeroUnchecked(T, op, b) == FALSE
DivByZero(T, op, b) == op = "Div" /\ T[b].value = 0

---------------------------------------------------------------------------
(* Reverse traversal.  F gives each Ctx's descriptor, V each Ctx's value;   *)
(* st = [grad, ab, inf]: the grad slots, whether exit(1) was called, and    *)
(* whether a partial left the modelled number grid (an infinity).           *)

\* grad * exponent * pow(value, exponent - 1)
PowPartial(g, v, e2) ==
  IF e2 = 1
    THEN IF IsNaNv(g) \/ IsNaNv(v) \/ v <= 0 THEN NaN ELSE TDiv(g, 2 * ISqrt(v))
    ELSE FMul(FMul(g, e2 \div 2), FPow(v, (e2 \div 2) - 1))

\* sqrt's partial at 0 is 0.5 * inf: an infinity unless the product is NaN
PowPartialInf(g, v, e2) == e2 = 1 /\ v = 0 /\ ~IsNaNv(g) /\ g # 0

\* AccBackwardFn::backward: the grad slot after a deposit of g
AccDepositOverwrite(old, g) == g
AccDeposit(old, g) == FAdd(old, g)

RECURSIVE Bwd(_, _, _, _, _)
Bwd(F, V, st, n, g) ==
  IF st.ab \/ st.inf THEN st
  ELSE LET f == F[n] IN
    CASE f.op = "None" -> st
      [] f.op = "Acc" -> [st EXCEPT !.grad[f.l] = AccDeposit(@, g)]
      [] f.op = "Add" -> Bwd(F, V, Bwd(F, V, st, f.l, g), f.r, g)
      [] f.op = "Sub" -> Bwd(F, V, Bwd(F, V, st, f.l, g), f.r, FNeg(g))
      [] f.op = "Mul" ->
           Bwd(F, V, Bwd(F, V, st, f.l, FMul(g, V[f.r])), f.r, FMul(g, V[f.l]))
      [] f.op = "Div" ->
           IF V[f.r] = 0 THEN [st EXCEPT !.ab = TRUE]
           ELSE Bwd(F, V, Bwd(F, V, st, f.l, FDiv(g, V[f.r])), f.r,
                    FDiv(FMul(FNeg(g), V[f.l]), FMul(V[f.r], V[f.r])))
      [] f.op = "Neg" -> Bwd(F, V, st, f.l, FNeg(g))
      [] f.op = "Pow" ->
           IF PowPartialInf(g, V[f.l], f.e2) THEN [st EXCEPT !.inf = TRUE]
           ELSE Bwd(F, V, st, f.l, PowPartial(g, V[f.l], f.e2))
      [] f.op = "Cos" -> Bwd(F, V, st, f.l, FMul(g, FNeg(FSin(V[f.l]))))
      [] f.op = "Sin" -> Bwd(F, V, st, f.l, FMul(g, FCos(V[f.l])))

Fns(T) == [i \in Ids(T) |-> T[i].fn]
Values(T) == [i \in Ids(T) |-> T[i].value]
Grads(T) == [i \in Ids(T) |-> T[i].grad]

\* Float::backward(g) on Ctx c of tape T
BackwardOf(T, c, g) ==
  Bwd(Fns(T), Values(T), [grad |-> Grads(T), ab |-> FALSE, inf |-> FALSE], c, g)

\* a traversal that would also detach every node it is handed
WithGradsDetach(T, G) == [i \in Ids(T) |-> [T[i] EXCEPT !.grad = G[i], !.fn = NoneFn]]
\* the tape after a traversal: only the grad slots take the traversal's deposits
WithGrads(T, G) == [i \in Ids(T) |-> [T[i] EXCEPT !.grad = G[i]]]

---------------------------------------------------------------------------
(* The reference engine of the short-circuit claim: the same operations,    *)
(* except that every operation records a derived node holding its operands. *)

RefCtx(fn) == [grad |-> 0, fn |-> fn]
RefFns == [i \in 1..Len(refTape) |-> refTape[i].fn]
RefGrads == [i \in 1..Len(refTape) |-> refTape[i].grad]
RefIsLeaf(c) == refTape[c].fn.op \in {"Acc", "None"}

RefBackwardOf(c, g) ==
  Bwd(RefFns, Values(tape), [grad |-> RefGrads, ab |-> FALSE, inf |-> FALSE], c, g)

\* Ctx n was produced by an operation whose operands were all none_fn
ShortCircuited(n) == origin[n] = "op_inert"

OperandOfShortCircuit(c) ==
  \E n \in Ids(tape) :
    ShortCircuited(n) /\ (refTape[n].fn.l = c \/ refTape[n].fn.r = c)

---------------------------------------------------------------------------
(* Diagnostics written to std::cerr before exit(1) *)
DivMsg == "Division by zero!"
LeafMsg == "Cannot change requires_grad for non-leaf Float."

Aborted == diag # ""

---------------------------------------------------------------------------
(* Inputs *)
LeafVals == {0, 2}
UpdVals == {0}
PowExps2 == {1, 4}   \* twice the exponent: sqrt(), pow(2)
Seeds == {1}

---------------------------------------------------------------------------
(* Operations of ad::Float, on the Ctx they address; maxN bounds the tape *)

\* Float(v, requires_grad)
FloatCtor(v, rg, maxN) ==
  /\ ~Aborted
  /\ Len(tape) < maxN
  /\ LET c == Len(tape) + 1
         fn == IF rg THEN AccFn(c) ELSE NoneFn
     IN /\ tape' = Append(tape, Ctx(v, fn))
        /\ refTape' = Append(refTape, RefCtx(fn))
  /\ origin' = Append(origin, "leaf")
  /\ UNCHANGED <<diag, refAborted, lateToggle, calls>>

\* operator+, operator*, operator-, operator/
BinaryOp(op, a, b, maxN) ==
  /\ ~Aborted
  /\ Len(tape) < maxN
  /\ IF DivByZero(tape, op, b)
       THEN /\ diag' = DivMsg
            /\ UNCHANGED <<tape, refTape, refAborted, origin, lateToggle, calls>>
       ELSE LET v == BinValue(op, tape[a].value, tape[b].value) IN
            /\ InRange(v, MaxVal)
            /\ tape' = Append(tape, Ctx(v, BinResultFn(tape, op, a, b)))
            /\ refTape' = Append(refTape, RefCtx(BinaryFn(op, a, b)))
            /\ origin' = Append(origin, IF is_none_fn(tape, a) /\ is_none_fn(tape, b)
                                          THEN "op_inert" ELSE "op")
            /\ UNCHANGED <<diag, refAborted, lateToggle, calls>>

\* operator-(), pow, sqrt, cos, sin
UnaryOp(op, a, e2, maxN) ==
  /\ ~Aborted
  /\ Len(tape) < maxN
  /\ InRange(tape[a].value, MaxVal)
  /\ LET v == UnValue(op, tape[a].value, e2) IN
       /\ InRange(v, MaxVal)
       /\ tape' = Append(tape, Ctx(v, UnResultFn(tape, op, a, e2)))
       /\ refTape' = Append(refTape, RefCtx(UnaryFn(op, a, e2)))
  /\ origin' = Append(origin, IF is_none_fn(tape, a) THEN "op_inert" ELSE "op")
  /\ UNCHANGED <<diag, refAborted, lateToggle, calls>>

\* update(v)
Update(c, v) ==
  /\ ~Aborted
  /\ calls < MaxCalls
  /\ calls' = calls + 1
  /\ tape' = [tape EXCEPT ![c].value = v]
  /\ UNCHANGED <<diag, refTape, refAborted, origin, lateToggle>>

\* zero_grad(): a warning and no effect unless the Float is accumulating
ZeroGrad(c) ==
  /\ ~Aborted
  /\ calls < MaxCalls
  /\ calls' = calls + 1
  /\ tape' = IF is_acc_fn(tape, c) THEN [tape EXCEPT ![c].grad = 0] ELSE tape
  /\ refTape' = IF ~refAborted /\ refTape[c].fn.op = "Acc"
                  THEN [refTape EXCEPT ![c].grad = 0] ELSE refTape
  /\ UNCHANGED <<diag, refAborted, origin, lateToggle>>

\* the descriptor requires_grad(b) leaves in a leaf Ctx
RequiresGradFnNoOff(fn, c, b) == IF b /\ fn.op = "None" THEN AccFn(c) ELSE fn
RequiresGradFn(fn, c, b) ==
  IF b THEN (IF fn.op = "None" THEN AccFn(c) ELSE fn) ELSE NoneFn

\* requires_grad(b): exit(1) on a non-leaf
RequiresGrad(c, b) ==
  /\ ~Aborted
  /\ calls < MaxCalls
  /\ calls' = calls + 1
  /\ IF ~is_leaf(tape, c)
       THEN /\ diag' = LeafMsg
            /\ UNCHANGED <<tape, refTape, refAborted, lateToggle>>
       ELSE /\ tape' = [tape EXCEPT ![c].fn = RequiresGradFn(@, c, b)]
            /\ refAborted' = (refAborted \/ ~RefIsLeaf(c))
            /\ refTape' = IF ~refAborted /\ RefIsLeaf(c)
                            THEN [refTape EXCEPT ![c].fn = RequiresGradFn(@, c, b)]
                            ELSE refTape
            /\ lateToggle' = (lateToggle \/ ShortCircuited(c)
                                \/ (b /\ is_none_fn(tape, c) /\ OperandOfShortCircuit(c)))
            /\ UNCHANGED diag
  /\ UNCHANGED origin

\* backward(g)
Backward(c, g) ==
  /\ ~Aborted
  /\ calls < MaxCalls
  /\ calls' = calls + 1
  /\ LET st == BackwardOf(tape, c, g)
         rst == RefBackwardOf(c, g)
     IN /\ ~st.inf
        /\ \A i \in Ids(tape) : InRange(st.grad[i], MaxGrad)
        /\ diag' = IF st.ab THEN DivMsg ELSE ""
        /\ tape' = WithGrads(tape, st.grad)
        /\ IF refAborted THEN UNCHANGED <<refTape, refAborted>>
           ELSE /\ ~rst.inf
                /\ \A i \in Ids(tape) : InRange(rst.grad[i], MaxGrad)
                /\ refAborted' = rst.ab
                /\ refTape' = [i \in 1..Len(refTape) |->
                                 [refTape[i] EXCEPT !.grad = rst.grad[i]]]
  /\ UNCHANGED <<origin, lateToggle>>

\* no render call has been made
Idle == [st |-> "idle", depth |-> 0, spp |-> 0, s |-> 0, L |-> <<0, 0, 0>>, scat |-> FALSE]

---------------------------------------------------------------------------
(* Spec: the autograd engine driven by any caller *)

Init ==
  /\ tape = <<>>
  /\ diag = ""
  /\ refTape = <<>>
  /\ refAborted = FALSE
  /\ origin = <<>>
  /\ lateToggle = FALSE
  /\ calls = 0
  /\ refs = <<>>
  /\ ident = <<>>
  /\ params = <<>>
  /\ pident = <<>>
  /\ vecs = <<>>
  /\ rays = <<>>
  /\ mats = <<>>
  /\ lights = <<>>
  /\ image = <<>>
  /\ job = Idle
  /\ pc = "setup"
  /\ iter = 0
  /\ snap = <<>>
  /\ events = <<>>
  /\ held = [pred |-> 0, loss |-> 0]
  /\ hyper = [made |-> FALSE, lr |-> 0, lambda |-> 0, momentum |-> 0]
  /\ vel = <<>>
  /\ sel = [n |-> 0, m |-> 0, w |-> <<0, 0, 0>>, lobe |-> "none", prob |-> 0]
  /\ prims = <<>>
  /\ scan = [ret |-> FALSE, hit |-> [t |-> 0, n |-> 0, mat |-> 0]]
  /\ gen = [made |-> FALSE, s |-> 0]
  /\ cam = [st |-> "idle", w |-> 0, h |-> 0, spp |-> 0, x |-> 0, y |-> 0, s |-> 0, buf |-> <<>>]
  /\ frames = <<>>

NewLeaf ==
  \E v \in LeafVals, rg \in BOOLEAN : FloatCtor(v, rg, MaxNodes) /\ UNCHANGED nonAg
DoBinary ==
  \E op \in BinOps, a, b \in Ids(tape) : BinaryOp(op, a, b, MaxNodes) /\ UNCHANGED nonAg
DoUnary ==
  \E op \in UnOps, a \in Ids(tape), e2 \in PowExps2 :
    /\ (op # "Pow" => e2 = 1)
    /\ UnaryOp(op, a, IF op = "Pow" THEN e2 ELSE 0, MaxNodes)
    /\ UNCHANGED nonAg
DoUpdate == \E c \in Ids(tape), v \in UpdVals : Update(c, v) /\ UNCHANGED nonAg
DoZeroGrad == \E c \in Ids(tape) : ZeroGrad(c) /\ UNCHANGED nonAg
DoRequiresGrad == \E c \in Ids(tape), b \in BOOLEAN : RequiresGrad(c, b) /\ UNCHANGED nonAg
DoBackward == \E c \in Ids(tape), g \in Seeds : Backward(c, g) /\ UNCHANGED nonAg

Next ==
  \/ NewLeaf
  \/ DoBinary
  \/ DoUnary
  \/ DoUpdate
  \/ DoZeroGrad
  \/ DoRequiresGrad
  \/ DoBackward

Spec == Init /\ [][Next]_vars

---------------------------------------------------------------------------
(* SpecTape: the sequences of the short-circuit claim: leaf constructions,  *)
(* arithmetic operations, requires_grad toggles and backward calls          *)
MaxTapeNodes == 4
MaxTapeCalls == 2
TapeLeafVals == {2}
TapeBinOps == {"Add", "Mul", "Div"}
TapeUnOps == {"Neg", "Pow"}

TapeNewLeaf ==
  \E v \in TapeLeafVals, rg \in BOOLEAN :
    FloatCtor(v, rg, MaxTapeNodes) /\ UNCHANGED nonAg
TapeBinary ==
  \E op \in TapeBinOps, a, b \in Ids(tape) :
    BinaryOp(op, a, b, MaxTapeNodes) /\ UNCHANGED nonAg
TapeUnary ==
  \E op \in TapeUnOps, a \in Ids(tape) :
    /\ UnaryOp(op, a, IF op = "Pow" THEN 4 ELSE 0, MaxTapeNodes)
    /\ UNCHANGED nonAg
TapeRequiresGrad ==
  \E c \in Ids(tape), b \in BOOLEAN :
    calls < MaxTapeCalls /\ RequiresGrad(c, b) /\ UNCHANGED nonAg
TapeBackward ==
  \E c \in Ids(tape), g \in Seeds :
    calls < MaxTapeCalls /\ Backward(c, g) /\ UNCHANGED nonAg

NextTape ==
  \/ TapeNewLeaf
  \/ TapeBinary
  \/ TapeUnary
  \/ TapeRequiresGrad
  \/ TapeBackward

SpecTape == Init /\ [][NextTape]_vars

---------------------------------------------------------------------------
(* Float operations as functions of the tape, for the code that chains     *)
(* them.  S = [t, ab, r]: the tape, whether exit(1) was called, and the    *)
(* Ctx of the last result.                                                 *)

Start(T) == [t |-> T, ab |-> FALSE, r |-> 0]

\* Float(v): a literal converted to a Float
FLit(S, v) ==
  IF S.ab THEN S
  ELSE [t |-> Append(S.t, Ctx(v, NoneFn)), ab |-> FALSE, r |-> Len(S.t) + 1]

FBin(S, op, a, b) ==
  IF S.ab THEN S
  ELSE IF DivByZero(S.t, op, b) THEN [S EXCEPT !.ab = TRUE]
  ELSE [t |-> Append(S.t, Ctx(BinValue(op, S.t[a].value, S.t[b].value),
                              BinResultFn(S.t, op, a, b))),
        ab |-> FALSE, r |-> Len(S.t) + 1]

FUn(S, op, a, e2) ==
  IF S.ab THEN S
  ELSE [t |-> Append(S.t, Ctx(UnValue(op, S.t[a].value, e2),
                              UnResultFn(S.t, op, a, e2))),
        ab |-> FALSE, r |-> Len(S.t) + 1]

---------------------------------------------------------------------------
(* Vec3 and Ray (rtmath.h).  W = [s, v]: the chain state and the result.   *)

Vec(x, y, z) == [x |-> x, y |-> y, z |-> z]

\* Vec3::norm_squared: x * x + y * y + z * z
NormSquared(S, v) ==
  LET xx == FBin(S, "Mul", v.x, v.x)
      yy == FBin(xx, "Mul", v.y, v.y)
      s1 == FBin(yy, "Add", xx.r, yy.r)
      zz == FBin(s1, "Mul", v.z, v.z)
  IN FBin(zz, "Add", s1.r, zz.r)

\* Vec3::norm: norm_squared().sqrt()
Norm(S, v) == LET n2 == NormSquared(S, v) IN FUn(n2, "Pow", n2.r, 1)

\* Vec3::operator*(const Float &)
VecTimes(S, v, k) ==
  LET rx == FBin(S, "Mul", v.x, k)
      ry == FBin(rx, "Mul", v.y, k)
      rz == FBin(ry, "Mul", v.z, k)
  IN [s |-> rz, v |-> Vec(rx.r, ry.r, rz.r)]

\* a scaling by the reciprocal taken in Float_t, which has no zero check
VecOverUnchecked(S, v, k) ==
  LET inv == FLit(S, FDiv(1, S.t[k].value))
  IN VecTimes(inv, v, inv.r)

\* Vec3::operator/(const Float &): (*this) * (1.0 / scalar)
VecOver(S, v, k) ==
  LET one == FLit(S, 1)
      inv == FBin(one, "Div", one.r, k)
  IN VecTimes(inv, v, inv.r)

\* Vec3::normalize: (*this) / norm()
Normalize(S, v) == LET n == Norm(S, v) IN VecOver(n, v, n.r)

\* Vec3::isNaN
VecIsNaN(T, v) == IsNaNv(T[v.x].value) \/ IsNaNv(T[v.y].value) \/ IsNaNv(T[v.z].value)

\* norm() of v is 0
ZeroLength(T, v) == T[v.x].value = 0 /\ T[v.y].value = 0 /\ T[v.z].value = 0

---------------------------------------------------------------------------
(* SpecVec: callers that build, normalize and trace along Vec3s *)
MaxVecs == 2
MaxVecCalls == 1
VecChoices == {<<0, 0, 0>>, <<1, 0, 0>>, <<1, 1, 0>>, <<NaN, 0, 1>>, <<0, 0, NaN>>}

\* Vec3(x, y, z) from three literals
VecCtor ==
  \E w \in VecChoices :
    /\ ~Aborted
    /\ Len(vecs) < MaxVecs
    /\ LET a == FLit(Start(tape), w[1])
           b == FLit(a, w[2])
           c == FLit(b, w[3])
       IN /\ tape' = c.t
          /\ vecs' = Append(vecs, Vec(a.r, b.r, c.r))
    /\ UNCHANGED <<diag, refTape, refAborted, origin, lateToggle, calls, shVars, appVars, rays>>

\* Vec3::requires_grad(b): x, y, z in turn; exit(1) at the first non-leaf
VecRequiresGrad ==
  \E i \in 1..Len(vecs), b \in BOOLEAN :
    /\ ~Aborted
    /\ calls < MaxVecCalls
    /\ calls' = calls + 1
    /\ LET v == vecs[i]
           cs == <<v.x, v.y, v.z>>
           bad == {k \in 1..3 : ~is_leaf(tape, cs[k])}
           upto == IF bad = {} THEN 3 ELSE (CHOOSE k \in bad : \A m \in bad : k <= m) - 1
       IN /\ diag' = IF bad = {} THEN "" ELSE LeafMsg
          /\ tape' = [c \in Ids(tape) |->
                        IF \E k \in 1..upto : cs[k] = c
                          THEN [tape[c] EXCEPT !.fn = RequiresGradFn(@, c, b)]
                          ELSE tape[c]]
    /\ UNCHANGED <<refTape, refAborted, origin, lateToggle, shVars, appVars, vcVars>>

\* v.normalize()
VecNormalize(i) ==
  /\ ~Aborted
  /\ Len(vecs) < MaxVecs
  /\ LET w == Normalize(Start(tape), vecs[i]) IN
       /\ tape' = w.s.t
       /\ diag' = IF w.s.ab THEN DivMsg ELSE ""
       /\ vecs' = IF w.s.ab THEN vecs ELSE Append(vecs, w.v)
  /\ UNCHANGED <<refTape, refAborted, origin, lateToggle, calls, shVars, appVars, rays>>

\* Ray(origin, direction): o(origin), d(direction.normalize())
RayCtor(o, d) ==
  /\ ~Aborted
  /\ Len(vecs) < MaxVecs + 1
  /\ Len(rays) < 1
  /\ LET w == Normalize(Start(tape), vecs[d]) IN
       /\ tape' = w.s.t
       /\ diag' = IF w.s.ab THEN DivMsg ELSE ""
       /\ vecs' = IF w.s.ab THEN vecs ELSE Append(vecs, w.v)
       /\ rays' = IF w.s.ab THEN rays ELSE Append(rays, [o |-> o, d |-> Len(vecs) + 1])
  /\ UNCHANGED <<refTape, refAborted, origin, lateToggle, calls, shVars, appVars>>

DoNormalize == \E i \in 1..Len(vecs) : VecNormalize(i)
DoRay == \E o, d \in 1..Len(vecs) : RayCtor(o, d)

NextVec ==
  \/ VecCtor
  \/ VecRequiresGrad
  \/ DoNormalize
  \/ DoRay

SpecVec == Init /\ [][NextVec]_vars

---------------------------------------------------------------------------
(* SpecShare: Float handles.  A Float is a shared_ptr to its Ctx; copies   *)
(* and assignments are the compiler-generated ones, and the optimizer      *)
(* keeps the Ctx pointers of its parameters (main.cc).                     *)
MaxShNodes == 2
MaxRefs == 2
MaxParams == 1
MaxShCalls == 2
ShVals == {0, 2}
LearningRate == 1

\* a copy that makes a Ctx of its own
FloatCopyDeep(T, c) == [t |-> Append(T, T[c]), r |-> Len(T) + 1]
\* Float(const Float &), operator=(const Float &): the handle shares _ctx
FloatCopy(T, c) == [t |-> T, r |-> c]

Handles == 1..Len(refs)
shRest == <<diag, refTape, refAborted, origin, lateToggle>>

ShNew ==
  \E v \in ShVals, rg \in BOOLEAN :
    /\ ~Aborted
    /\ Len(tape) < MaxShNodes - 1
    /\ Len(refs) < MaxRefs
    /\ tape' = Append(tape, Ctx(v, IF rg THEN AccFn(Len(tape) + 1) ELSE NoneFn))
    /\ refs' = Append(refs, Len(tape) + 1)
    /\ ident' = Append(ident, Len(tape) + 1)
    /\ UNCHANGED <<shRest, calls, params, pident, vcVars, appVars>>

\* Float b = a; a Vec3 component or an albedo initialised from a Float
ShCopy ==
  \E h \in Handles :
    /\ ~Aborted
    /\ Len(refs) < MaxRefs
    /\ LET cp == FloatCopy(tape, refs[h]) IN
         /\ tape' = cp.t
         /\ refs' = Append(refs, cp.r)
         /\ ident' = Append(ident, ident[h])
    /\ UNCHANGED <<shRest, calls, params, pident, vcVars, appVars>>

\* a = b
ShAssign ==
  \E h, g \in Handles :
    /\ ~Aborted
    /\ h # g
    /\ calls < MaxShCalls
    /\ calls' = calls + 1
    /\ LET cp == FloatCopy(tape, refs[g]) IN
         /\ tape' = cp.t
         /\ refs' = [refs EXCEPT ![h] = cp.r]
         /\ ident' = [ident EXCEPT ![h] = ident[g]]
    /\ UNCHANGED <<shRest, params, pident, vcVars, appVars>>

\* a * b through two handles
ShMul ==
  \E h, g \in Handles :
    /\ ~Aborted
    /\ Len(tape) < MaxShNodes
    /\ Len(refs) < MaxRefs
    /\ LET r == FBin(Start(tape), "Mul", refs[h], refs[g]) IN
         /\ InRange(r.t[r.r].value, MaxVal)
         /\ tape' = r.t
         /\ refs' = Append(refs, r.r)
         /\ ident' = Append(ident, r.r)
    /\ UNCHANGED <<shRest, calls, params, pident, vcVars, appVars>>

\* IOptimizer::add_param(const Float &)
ShAddParam ==
  \E h \in Handles :
    /\ ~Aborted
    /\ Len(params) < MaxParams
    /\ params' = Append(params, refs[h])
    /\ pident' = Append(pident, ident[h])
    /\ UNCHANGED <<agVars, refs, ident, vcVars, appVars>>

ShUpdate ==
  \E h \in Handles, v \in UpdVals :
    /\ ~Aborted
    /\ calls < MaxShCalls
    /\ calls' = calls + 1
    /\ tape' = [tape EXCEPT ![refs[h]].value = v]
    /\ UNCHANGED <<shRest, shVars, vcVars, appVars>>

ShZeroGrad ==
  \E h \in Handles :
    /\ ~Aborted
    /\ calls < MaxShCalls
    /\ calls' = calls + 1
    /\ tape' = IF is_acc_fn(tape, refs[h])
                 THEN [tape EXCEPT ![refs[h]].grad = 0] ELSE tape
    /\ UNCHANGED <<shRest, shVars, vcVars, appVars>>

ShRequiresGrad ==
  \E h \in Handles, b \in BOOLEAN :
    /\ ~Aborted
    /\ calls < MaxShCalls
    /\ calls' = calls + 1
    /\ IF ~is_leaf(tape, refs[h])
         THEN diag' = LeafMsg /\ tape' = tape
         ELSE /\ tape' = [tape EXCEPT ![refs[h]].fn = RequiresGradFn(@, refs[h], b)]
              /\ diag' = diag
    /\ UNCHANGED <<refTape, refAborted, origin, lateToggle, shVars, vcVars, appVars>>

ShBackward ==
  \E h \in Handles, g \in Seeds :
    /\ ~Aborted
    /\ calls < MaxShCalls
    /\ calls' = calls + 1
    /\ LET st == BackwardOf(tape, refs[h], g) IN
         /\ ~st.inf
         /\ \A i \in Ids(tape) : InRange(st.grad[i], MaxGrad)
         /\ diag' = IF st.ab THEN DivMsg ELSE ""
         /\ tape' = WithGrads(tape, st.grad)
    /\ UNCHANGED <<refTape, refAborted, origin, lateToggle, shVars, vcVars, appVars>>

\* IOptimizer::zero_grad: *param->grad = 0.0 for every registered Ctx
RECURSIVE OptZero(_, _)
OptZero(T, k) ==
  IF k > Len(params) THEN T
  ELSE OptZero([T EXCEPT ![params[k]].grad = 0], k + 1)

\* SGD::step: (*param->value) -= lr * (*param->grad), in registration order
RECURSIVE SgdStep(_, _)
SgdStep(T, k) ==
  IF k > Len(params) THEN T
  ELSE SgdStep([T EXCEPT ![params[k]].value =
                   FSub(@, FMul(LearningRate, T[params[k]].grad))], k + 1)

ShOptZeroGrad ==
  /\ ~Aborted
  /\ params # <<>>
  /\ calls < MaxShCalls
  /\ calls' = calls + 1
  /\ tape' = OptZero(tape, 1)
  /\ UNCHANGED <<shRest, shVars, vcVars, appVars>>

ShOptStep ==
  /\ ~Aborted
  /\ params # <<>>
  /\ calls < MaxShCalls
  /\ calls' = calls + 1
  /\ tape' = SgdStep(tape, 1)
  /\ \A i \in Ids(tape) : InRange(tape'[i].value, MaxVal)
  /\ UNCHANGED <<shRest, shVars, vcVars, appVars>>

NextShare ==
  \/ ShNew
  \/ ShCopy
  \/ ShAssign
  \/ ShMul
  \/ ShAddParam
  \/ ShUpdate
  \/ ShZeroGrad
  \/ ShRequiresGrad
  \/ ShBackward
  \/ ShOptZeroGrad
  \/ ShOptStep

SpecShare == Init /\ [][NextShare]_vars

---------------------------------------------------------------------------
(* SpecRender: the integrator (main.cc Li, render) over an abstract scene. *)
(* Radiance, albedo and probabilities are fixed-point: One stands for 1.0. *)
(* Geometry is abstracted: what a ray hits and what uniform() returns are  *)
(* drawn by the caller of Li as a path of events.                          *)
One == 2
MPI == 3
MaxMats == 1
MaxLights == 1
MaxDepth == 2
MaxSpp == 1
NumPixels == 1

FxMul(a, b) == FDiv(FMul(a, b), One)
FxDiv(a, b) == FDiv(FMul(a, One), b)
Zero3 == <<0, 0, 0>>
V3Add(a, b) == [c \in 1..3 |-> FAdd(a[c], b[c])]
V3Mul(a, b) == [c \in 1..3 |-> FxMul(a[c], b[c])]
V3Scale(a, k) == [c \in 1..3 |-> FxMul(a[c], k)]
\* Vec3::max
Max3(v) == CHOOSE m \in {v[1], v[2], v[3]} : \A c \in 1..3 : m >= v[c]

\* Material::Material: the lobe probabilities are taken from the albedos
\* here, and everything is rescaled when they sum to more than 1
Material(Le, kd, ks, kr) ==
  LET pd == Max3(kd)
      ps == Max3(ks)
      pr == Max3(kr)
      total == pd + ps + pr
      inv == FxDiv(One, total)
  IN IF total > One
       THEN [emission |-> Le, kd |-> V3Scale(kd, inv), ks |-> V3Scale(ks, inv),
             kr |-> V3Scale(kr, inv), prob_d |-> FxDiv(pd, total),
             prob_s |-> FxDiv(ps, total), prob_r |-> FxDiv(pr, total)]
       ELSE [emission |-> Le, kd |-> kd, ks |-> ks, kr |-> kr,
             prob_d |-> pd, prob_s |-> ps, prob_r |-> pr]

\* a roulette whose comparisons admit p equal to the cumulated weight
RRInclusive(mat, p) ==
  IF p <= mat.prob_d THEN [lobe |-> "d", k |-> mat.kd, prob |-> mat.prob_d]
  ELSE IF p <= mat.prob_d + mat.prob_s THEN [lobe |-> "s", k |-> mat.ks, prob |-> mat.prob_s]
  ELSE IF p <= mat.prob_d + mat.prob_s + mat.prob_r
    THEN [lobe |-> "r", k |-> mat.kr, prob |-> mat.prob_r]
  ELSE [lobe |-> "none", k |-> Zero3, prob |-> 0]
\* Material::rr with p = uniform(0, 1)
RR(mat, p) ==
  IF p < mat.prob_d THEN [lobe |-> "d", k |-> mat.kd, prob |-> mat.prob_d]
  ELSE IF p < mat.prob_d + mat.prob_s THEN [lobe |-> "s", k |-> mat.ks, prob |-> mat.prob_s]
  ELSE IF p < mat.prob_d + mat.prob_s + mat.prob_r
    THEN [lobe |-> "r", k |-> mat.kr, prob |-> mat.prob_r]
  ELSE [lobe |-> "none", k |-> Zero3, prob |-> 0]

\* M_PI * fr * cosThetaI / pdf with fr = evaluate / prob, cosThetaI = pdf = 1.
\* Diffuse evaluate is k * M_1_PI, so the factor is k / prob; the specular
\* and refractive evaluate is k.
Throughput(ev) ==
  [c \in 1..3 |-> IF ev.lobe = "d" THEN FxDiv(ev.k[c], ev.prob)
                  ELSE FMul(MPI, FxDiv(ev.k[c], ev.prob))]

Miss == [hit |-> FALSE, m |-> 0, p |-> 0]
Events == {Miss} \cup {[hit |-> TRUE, m |-> m, p |-> p] : m \in 1..Len(mats), p \in 0..(One - 1)}
\* the events a call of Li with this depth can consume
Paths(depth) == [1..depth -> Events]

\* a sky that shines on rays leaving the scene
MissRadianceSky == <<One, One, One>>
\* if (!scene.intersect(ray, hit)) return Direction(0, 0, 0)
MissRadiance == Zero3

\* Li along path from its i-th event: [ab, v]
RECURSIVE Li(_, _, _)
Li(path, i, depth) ==
  IF depth = 0 THEN [ab |-> FALSE, v |-> Zero3]
  ELSE IF ~path[i].hit THEN [ab |-> FALSE, v |-> MissRadiance]
  ELSE LET mat == mats[path[i].m]
           ev == RR(mat, path[i].p)
       IN IF Max3(mat.emission) > 0 THEN [ab |-> FALSE, v |-> mat.emission]
          ELSE IF ev.lobe = "none" THEN [ab |-> FALSE, v |-> Zero3]
          ELSE IF ev.prob = 0 THEN [ab |-> TRUE, v |-> Zero3]
          ELSE LET in == Li(path, i + 1, depth - 1)
               IN [ab |-> in.ab, v |-> V3Mul(in.v, Throughput(ev))]

\* the first event of path is a non-emissive hit where a lobe was selected
Scatters(path, depth) ==
  /\ depth > 0
  /\ path[1].hit
  /\ Max3(mats[path[1].m].emission) <= 0
  /\ RR(mats[path[1].m], path[1].p).lobe # "none"

MatChoices ==
  { <<Zero3, Zero3, Zero3, Zero3>>,
    <<Zero3, <<2, 1, 0>>, Zero3, Zero3>>,
    <<Zero3, <<1, 1, 1>>, <<1, 0, 1>>, Zero3>>,
    <<<<2, 2, 2>>, Zero3, Zero3, Zero3>>,
    <<<<-2, 0, -2>>, Zero3, Zero3, <<2, 2, 2>>>>,
    <<Zero3, <<2, 2, 2>>, <<2, 2, 2>>, Zero3>> }
LightPowers == {<<2, 2, 2>>}

rdRest == <<tape, refTape, refAborted, origin, lateToggle, calls, shVars, vcVars, trVars,
            opVars, scVars, cmVars>>

\* Scene::add(object)
AddMaterial ==
  \E c \in MatChoices :
    /\ job.st = "idle"
    /\ Len(mats) < MaxMats
    /\ mats' = Append(mats, Material(c[1], c[2], c[3], c[4]))
    /\ UNCHANGED <<rdRest, diag, lights, image, job>>

\* Scene::add(light)
AddLight ==
  \E pw \in LightPowers, occ \in BOOLEAN :
    /\ job.st = "idle"
    /\ Len(lights) < MaxLights
    /\ lights' = Append(lights, [pow |-> pw, occluded |-> occ])
    /\ UNCHANGED <<rdRest, diag, mats, image, job>>

\* render(scene, image, width, height, depth, spp) is called
RenderBegin ==
  \E depth \in 0..MaxDepth, spp \in 0..MaxSpp :
    /\ job.st = "idle"
    /\ job' = [st |-> "run", depth |-> depth, spp |-> spp, s |-> 0, L |-> Zero3,
               scat |-> FALSE]
    /\ UNCHANGED <<rdRest, diag, mats, lights, image>>

\* L = L + Li(scene, Ray(eye, d), depth)
TraceSample(path) ==
  /\ ~Aborted
  /\ job.st = "run"
  /\ job.s < job.spp
  /\ LET r == Li(path, 1, job.depth) IN
       /\ diag' = IF r.ab THEN DivMsg ELSE ""
       /\ job' = IF r.ab THEN job
                 ELSE [job EXCEPT !.s = @ + 1, !.L = V3Add(@, r.v),
                                  !.scat = @ \/ Scatters(path, job.depth)]
  /\ UNCHANGED <<rdRest, mats, lights, image>>

DoTrace == \E path \in Paths(job.depth) : TraceSample(path)

\* image[y * width + x] = L / spp
StorePixel ==
  /\ ~Aborted
  /\ job.st = "run"
  /\ job.s = job.spp
  /\ IF job.spp = 0
       THEN diag' = DivMsg /\ UNCHANGED <<image, job>>
       ELSE /\ diag' = diag
            /\ image' = Append(image, V3Scale(job.L, FxDiv(One, job.spp * One)))
            /\ job' = [job EXCEPT !.s = 0, !.L = Zero3,
                         !.st = IF Len(image) + 1 = NumPixels THEN "done" ELSE "run"]
  /\ UNCHANGED <<rdRest, mats, lights>>

NextRender ==
  \/ AddMaterial
  \/ AddLight
  \/ RenderBegin
  \/ DoTrace
  \/ StorePixel

SpecRender == Init /\ [][NextRender]_vars

---------------------------------------------------------------------------
(* SpecTrain: the training loop of main (main.cc), for one trained albedo  *)
(* channel seen through one pixel.                                         *)
MaxIters == 3
ParamVals == {0, 1}
TargetVals == {1, 2}
RadVals == {0, 1, 2}
TheParam == 1
TheTarget == 2

\* an order in which step() runs before the backward pass
LoopOrderStepEarly == <<"zero_grad", "render", "loss", "step", "backward">>
\* the statements of the loop body, in program order
LoopOrder == <<"zero_grad", "render", "loss", "backward", "step">>

\* control passes from statement name to the one after it
Advance(name) ==
  LET k == CHOOSE j \in 1..5 : LoopOrder[j] = name IN
  /\ pc = name
  /\ ~Aborted
  /\ pc' = IF k < 5 THEN LoopOrder[k + 1]
           ELSE IF iter = MaxIters THEN "done" ELSE LoopOrder[1]
  /\ iter' = IF k < 5 THEN iter ELSE iter + 1
  /\ events' = IF Len(events) = 5 THEN <<name>> ELSE Append(events, name)

\* a loss variable declared before the loop, kept across iterations
EndOfBodyKeepLoss(h) == h
\* Float loss is local to the loop body; pred outlives it
EndOfBody(h) == [h EXCEPT !.loss = 0]

trRest == <<refTape, refAborted, origin, lateToggle, calls, refs, ident, pident, vcVars, rdVars,
            opVars, scVars, cmVars>>

\* the target render, the albedo update, requires_grad(true) and add_param
TrainSetup ==
  \E v \in ParamVals, target \in TargetVals :
    /\ pc = "setup"
    /\ tape' = <<Ctx(v, AccFn(TheParam)), Ctx(target, NoneFn)>>
    /\ params' = <<TheParam>>
    /\ pc' = LoopOrder[1]
    /\ iter' = 1
    /\ UNCHANGED <<trRest, diag, snap, events, held>>

\* optimizer.zero_grad()
TrZeroGrad ==
  /\ Advance("zero_grad")
  /\ tape' = OptZero(tape, 1)
  /\ UNCHANGED <<trRest, diag, params, snap, held>>

\* render(scene, pred, ...): the pixel is the incoming radiance times the albedo
TrRender ==
  \E rad \in RadVals :
    /\ Advance("render")
    /\ LET c == FLit(Start(tape), rad)
           pred == FBin(c, "Mul", c.r, TheParam)
       IN /\ tape' = pred.t
          /\ held' = [held EXCEPT !.pred = pred.r]
    /\ snap' = [k \in 1..Len(params) |-> tape[params[k]].value]
    /\ UNCHANGED <<trRest, diag, params>>

\* Float loss = MSELoss(obj, pred, width, height)
TrLoss ==
  /\ Advance("loss")
  /\ LET mse0 == FLit(Start(tape), 0)
         diff == FBin(mse0, "Sub", TheTarget, Len(tape))
         sq == FBin(diff, "Mul", diff.r, diff.r)
         mse == FBin(sq, "Add", mse0.r, sq.r)
         n == FLit(mse, 1)
         loss == FBin(n, "Div", mse.r, n.r)
     IN /\ tape' = loss.t
        /\ diag' = IF loss.ab THEN DivMsg ELSE ""
        /\ held' = [held EXCEPT !.loss = loss.r]
  /\ UNCHANGED <<trRest, params, snap>>

\* loss.backward()
TrBackward ==
  /\ Advance("backward")
  /\ LET st == BackwardOf(tape, Len(tape), 1) IN
       /\ tape' = WithGrads(tape, st.grad)
       /\ diag' = IF st.ab THEN DivMsg ELSE ""
  /\ UNCHANGED <<trRest, params, snap, held>>

\* optimizer.step(), then the end of the loop body, where loss is destroyed
TrStep ==
  /\ Advance("step")
  /\ tape' = SgdStep(tape, 1)
  /\ held' = EndOfBody(held)
  /\ UNCHANGED <<trRest, diag, params, snap>>

NextTrain ==
  \/ TrainSetup
  \/ TrZeroGrad
  \/ TrRender
  \/ TrLoss
  \/ TrBackward
  \/ TrStep

SpecTrain == Init /\ [][NextTrain]_vars

---------------------------------------------------------------------------
(* SpecOptim: optim::SGD (optim.h) with L2 regularisation and momentum,    *)
(* driven by a caller whose loss is the sum of the squares of the          *)
(* parameters.  Values, grads, velocities and the hyper-parameters are     *)
(* fixed-point: Unit stands for 1.0.                                       *)
Unit == 10
MaxOptParams == 2
MaxOptCalls == 5

UMul(a, b) == TDiv(a * b, Unit)

\* if (lambda > 0) grad += lambda * (*param->value)
SgdGrad(grad, value) ==
  IF hyper.lambda > 0 THEN grad + UMul(hyper.lambda, value) ELSE grad

\* a velocity rebuilt from the gradient alone at every step
SgdVelocityNoCarry(v, g) == -UMul(hyper.lr, g)
\* v[i] = momentum * v[i] - lr * grad
SgdVelocity(v, g) == UMul(hyper.momentum, v) - UMul(hyper.lr, g)

\* SGD::step from parameter k on: [t, v]
RECURSIVE SgdMomentumStep(_, _, _)
SgdMomentumStep(T, V, k) ==
  IF k > Len(params) THEN [t |-> T, v |-> V]
  ELSE LET i == params[k]
           g == SgdGrad(T[i].grad, T[i].value)
       IN IF hyper.momentum > 0
            THEN LET v1 == SgdVelocity(V[k], g) IN
                 SgdMomentumStep([T EXCEPT ![i].value = @ + v1], [V EXCEPT ![k] = v1], k + 1)
            ELSE SgdMomentumStep([T EXCEPT ![i].value = @ - UMul(hyper.lr, g)], V, k + 1)

opRest == <<diag, refTape, refAborted, origin, lateToggle, calls, refs, ident, pident, vcVars,
            rdVars,
            pc, iter, snap, held, scVars, cmVars>>

\* SGD(learning_rate, l2reg, momentum)
SgdCtor ==
  \E lr \in {1, 5}, l2 \in {0, 5}, mu \in {0, 9} :
    /\ ~hyper.made
    /\ hyper' = [made |-> TRUE, lr |-> lr, lambda |-> l2, momentum |-> mu]
    /\ UNCHANGED <<opRest, tape, params, vel, events>>

\* Float a(v, true); optimizer.add_param(a)
OptAddParam ==
  \E v \in {50, -20} :
    /\ hyper.made
    /\ Len(params) < MaxOptParams
    /\ tape' = Append(tape, Ctx(v, AccFn(Len(tape) + 1)))
    /\ params' = Append(params, Len(tape) + 1)
    /\ vel' = IF hyper.momentum > 0 THEN Append(vel, 0) ELSE vel
    /\ events' = Append(events, [op |-> "add_param", v |-> v])
    /\ UNCHANGED <<opRest, hyper>>

\* L = a * a + ...; L.backward(1.0): each factor of a * a deposits 1.0 * a
OptBackward ==
  /\ params # <<>>
  /\ Len(events) < MaxOptCalls + Len(params)
  /\ tape' = [i \in Ids(tape) |->
                [tape[i] EXCEPT !.grad = AccDeposit(AccDeposit(@, UMul(Unit, tape[i].value)),
                                                    UMul(Unit, tape[i].value))]]
  /\ events' = Append(events, [op |-> "backward", v |-> 0])
  /\ UNCHANGED <<opRest, hyper, params, vel>>

\* IOptimizer::zero_grad
OptZeroGrad ==
  /\ params # <<>>
  /\ Len(events) < MaxOptCalls + Len(params)
  /\ tape' = OptZero(tape, 1)
  /\ events' = Append(events, [op |-> "zero_grad", v |-> 0])
  /\ UNCHANGED <<opRest, hyper, params, vel>>

\* SGD::step
OptStep ==
  /\ params # <<>>
  /\ Len(events) < MaxOptCalls + Len(params)
  /\ LET r == SgdMomentumStep(tape, vel, 1) IN tape' = r.t /\ vel' = r.v
  /\ events' = Append(events, [op |-> "step", v |-> 0])
  /\ UNCHANGED <<opRest, hyper, params>>

NextOptim ==
  \/ SgdCtor
  \/ OptAddParam
  \/ OptBackward
  \/ OptZeroGrad
  \/ OptStep

SpecOptim == Init /\ [][NextOptim]_vars

---------------------------------------------------------------------------
(* SpecScene: Scene::intersect (objects.cc) for one ray.  A primitive is   *)
(* what its own intersect does with that ray: whether it accepts, and the  *)
(* t and normal it then writes; mat is the primitive's material.  The hit  *)
(* position is ray.at(t), so it is fixed by t.                             *)
MaxPrims == 2
MaxScans == 2
\* std::numeric_limits<Float_t>::max()
FloatMax == 1000

\* Triangle::intersect accepts a ray with NaN components, with t = NaN:
\* none of its rejecting comparisons is true of a NaN
PrimChoices ==
  {[acc |-> FALSE, t |-> 0, n |-> 0, mat |-> m] : m \in {1, 2}} \cup
  {[acc |-> TRUE, t |-> t, n |-> n, mat |-> m] : t \in {1, 2, NaN}, n \in {1, 2}, m \in {1, 2}}

\* a scan that lets every accepting primitive replace the hit
CloserAlways(t, closest) == TRUE
\* temp_hit.t.value() < closest_t
Closer(t, closest) == ~IsNaNv(t) /\ t < closest

\* a scan that forgets to attach the primitive's material
TakeHitNoMaterial(prim) == [t |-> prim.t, n |-> prim.n, mat |-> 0]
\* hit = temp_hit; hit.material = object->material
TakeHit(prim) == [t |-> prim.t, n |-> prim.n, mat |-> prim.mat]

\* the loop of Scene::intersect from object i on: [ret, closest, hit]
RECURSIVE ScanFrom(_, _, _)
ScanFrom(P, i, st) ==
  IF i > Len(P) THEN st
  ELSE IF P[i].acc /\ Closer(P[i].t, st.closest)
    THEN ScanFrom(P, i + 1, [ret |-> TRUE, closest |-> P[i].t, hit |-> TakeHit(P[i])])
    ELSE ScanFrom(P, i + 1, st)

\* Scene::intersect(ray, hit) with the caller's record h
SceneIntersectOf(P, h) ==
  LET st == ScanFrom(P, 1, [ret |-> FALSE, closest |-> FloatMax, hit |-> h])
  IN [ret |-> st.ret, hit |-> st.hit]

scRest == <<tape, diag, refTape, refAborted, origin, lateToggle, shVars, vcVars, rdVars, trVars,
            opVars, cmVars, sel>>

\* Scene::add(object)
SceneAdd ==
  \E prim \in PrimChoices :
    /\ Len(prims) < MaxPrims
    /\ prims' = Append(prims, prim)
    /\ UNCHANGED <<scRest, scan, calls>>

\* scene.intersect(ray, hit); the caller passes the record it already holds
SceneIntersect ==
  /\ calls < MaxScans
  /\ calls' = calls + 1
  /\ scan' = SceneIntersectOf(prims, scan.hit)
  /\ UNCHANGED <<scRest, prims>>

NextScene ==
  \/ SceneAdd
  \/ SceneIntersect

SpecScene == Init /\ [][NextScene]_vars

---------------------------------------------------------------------------
(* SpecMat: a Material (material.h) whose albedo is edited after it was    *)
(* built, as main does before training and the optimizer does at each step.*)
MaxMatCalls == 2

mtRest == <<tape, refTape, refAborted, origin, lateToggle, shVars, vcVars, lights, image, job,
            trVars, opVars, cmVars, prims, scan>>

\* Material(emission, kd, ks, kr) handed to an object of the scene
MatNew ==
  \E kd \in {Zero3, <<1, 0, 0>>, <<2, 1, 0>>, <<-1, -1, -1>>},
     ks \in {Zero3, <<2, 0, 1>>, <<-1, -1, -1>>},
     kr \in {Zero3, <<2, 2, 2>>} :
    /\ Len(mats) < MaxMats
    /\ mats' = Append(mats, Material(Zero3, kd, ks, kr))
    /\ UNCHANGED <<mtRest, diag, calls, sel>>

\* material->diffuseBSDF->k.x.update(v), or the optimizer's step on k.x
MatUpdate ==
  \E m \in 1..Len(mats), c \in {1, 3}, v \in {0, One} :
    /\ ~Aborted
    /\ calls < MaxMatCalls
    /\ calls' = calls + 1
    /\ mats' = [mats EXCEPT ![m].kd[c] = v]
    /\ UNCHANGED <<mtRest, diag, sel>>

\* auto [bsdf, prob] = material->rr(); ... fr = bsdf->evaluate(...) / prob
MatRR ==
  \E m \in 1..Len(mats), p \in 0..(One - 1) :
    /\ ~Aborted
    /\ calls < MaxMatCalls
    /\ calls' = calls + 1
    /\ LET ev == RR(mats[m], p) IN
         /\ sel' = [n |-> sel.n + 1, m |-> m,
                    w |-> <<mats[m].prob_d, mats[m].prob_s, mats[m].prob_r>>,
                    lobe |-> ev.lobe, prob |-> ev.prob]
         /\ diag' = IF ev.lobe # "none" /\ ev.prob = 0 THEN DivMsg ELSE ""
    /\ UNCHANGED <<mtRest, mats>>

NextMat ==
  \/ MatNew
  \/ MatUpdate
  \/ MatRR

SpecMat == Init /\ [][NextMat]_vars

---------------------------------------------------------------------------
(* SpecCamera: the camera loop of render (main.cc) and uniform (rtmath.h). *)
(* The generator is a small full-period congruential engine standing for   *)
(* std::mt19937: what matters is that its state is static, seeded when the *)
(* first call constructs it and advanced by every draw.  Screen            *)
(* coordinates are counted in units of 1 / (width * Sub), Sub per pixel.   *)
MaxFrames == 2
MaxWidth == 2
MaxCamSpp == 2
Sub == 4
Period == 32
DefaultSeed == 5489

\* uniform(min, max, seed): the generator after the call and the value returned.
\* static thread_local std::mt19937 generator(seed) runs at the first call only;
\* s1 is the engine's next state and out the draw in [0, 1) read off it, in 1/Sub
Uniform(g, min, max, seed) ==
  LET s0 == IF g.made THEN g.s ELSE seed % Period
      s1 == (5 * s0 + 3) % Period
      out == (s1 * Sub) \div Period
  IN [g |-> [made |-> TRUE, s |-> s1], x |-> min + TDiv((max - min) * out, Sub)]

cmRest == <<agVars, shVars, vcVars, rdVars, trVars, opVars, scVars>>

\* render(scene, image, width, height, depth, spp) is entered
CamBegin ==
  \E w \in 1..MaxWidth, h \in 1..2, spp \in 1..MaxCamSpp :
    /\ cam.st = "idle"
    /\ Len(frames) < MaxFrames
    /\ cam' = [st |-> "run", w |-> w, h |-> h, spp |-> spp, x |-> 0, y |-> 0, s |-> 0,
               buf |-> <<>>]
    /\ UNCHANGED <<cmRest, gen, frames>>

\* one pass of the sample loop: su, sv, u, v; delta_u = 2.0 / width is 2 * Sub units
CamSample ==
  /\ cam.st = "run"
  /\ cam.y < cam.h
  /\ LET du == Uniform(gen, 0, 2 * Sub, DefaultSeed)
         dv == Uniform(du.g, 0, 2 * Sub, DefaultSeed)
         u == cam.x * Sub + du.x
         v == cam.y * Sub + dv.x
         last == cam.s + 1 = cam.spp
         wrap == last /\ cam.x + 1 = cam.w
     IN /\ gen' = dv.g
        /\ cam' = [cam EXCEPT !.buf = Append(@, [x |-> cam.x, y |-> cam.y, u |-> u, v |-> v]),
                              !.s = IF last THEN 0 ELSE @ + 1,
                              !.x = IF wrap THEN 0 ELSE IF last THEN @ + 1 ELSE @,
                              !.y = IF wrap THEN @ + 1 ELSE @]
  /\ UNCHANGED <<cmRest, frames>>

\* render returns: the buffer holds every pixel's samples
CamEnd ==
  /\ cam.st = "run"
  /\ cam.y = cam.h
  /\ frames' = Append(frames, [w |-> cam.w, h |-> cam.h, spp |-> cam.spp, buf |-> cam.buf])
  /\ cam' = [cam EXCEPT !.st = "idle"]
  /\ UNCHANGED <<cmRest, gen>>

NextCamera ==
  \/ CamBegin
  \/ CamSample
  \/ CamEnd

SpecCamera == Init /\ [][NextCamera]_vars

---------------------------------------------------------------------------
(* Definitions used to state the claims *)

IsDerived(T, n) == T[n].fn.op \in BinOps \cup UnOps

\* the Ctxs a backward call on c traverses
RECURSIVE Reach(_, _)
Reach(T, c) ==
  LET f == T[c].fn IN
  IF f.op \in BinOps THEN {c} \cup Reach(T, f.l) \cup Reach(T, f.r)
  ELSE IF f.op \in UnOps THEN {c} \cup Reach(T, f.l)
  ELSE {c}

\* the expression under c uses only +, binary -, *, unary - and pow(k)
PolyExpr(T, c) ==
  \A n \in Reach(T, c) :
    \/ T[n].fn.op \in {"None", "Acc", "Add", "Sub", "Mul", "Neg"}
    \/ T[n].fn.op = "Pow" /\ T[n].fn.e2 # 1

\* every derived Ctx under c still holds the value of its operation on the
\* current values of its operands (no update since the forward pass)
Fresh(T, c) ==
  \A n \in Reach(T, c) :
    /\ ~IsNaNv(T[n].value)
    /\ T[n].fn.op \in BinOps =>
         T[n].value = BinValue(T[n].fn.op, T[T[n].fn.l].value, T[T[n].fn.r].value)
    /\ T[n].fn.op \in UnOps =>
         T[n].value = UnValue(T[n].fn.op, T[T[n].fn.l].value, T[n].fn.e2)

\* dL/dp by forward differentiation: the sum over all paths from n to p of
\* the product of the local derivatives along the path
RECURSIVE Deriv(_, _, _)
Deriv(T, n, p) ==
  LET f == T[n].fn IN
  CASE f.op = "Acc" -> IF n = p THEN 1 ELSE 0
    [] f.op = "Add" -> Deriv(T, f.l, p) + Deriv(T, f.r, p)
    [] f.op = "Sub" -> Deriv(T, f.l, p) - Deriv(T, f.r, p)
    [] f.op = "Mul" ->
         Deriv(T, f.l, p) * T[f.r].value + T[f.l].value * Deriv(T, f.r, p)
    [] f.op = "Neg" -> -Deriv(T, f.l, p)
    [] f.op = "Pow" ->
         (f.e2 \div 2) * IPow(T[f.l].value, (f.e2 \div 2) - 1) * Deriv(T, f.l, p)
    [] OTHER -> 0

---------------------------------------------------------------------------
(* C1: one backward(1) on an expression built with +, binary -, *, unary -  *)
(* and pow(k) adds dL/dp, summed over all paths, to the grad of every       *)
(* leaf-accumulating scalar p, on top of what the grad held before; so      *)
(* repeated calls keep adding and nothing is remembered between calls.      *)
C1_BackwardAddsDerivative ==
  [][\A c \in Ids(tape) :
       (Backward(c, 1) /\ PolyExpr(tape, c) /\ Fresh(tape, c)) =>
          \A p \in Ids(tape) :
            is_acc_fn(tape, p) =>
              tape'[p].grad = FAdd(tape[p].grad, Deriv(tape, c, p))]_vars

\* a = 2, y = a*a*a, two backward(1) calls on y: a.grad = 2 * 3 * a^2 = 24
C1_Witness ==
  \E a, m, y \in Ids(tape) :
    /\ is_acc_fn(tape, a) /\ tape[a].value = 2
    /\ tape[m].fn = BinaryFn("Mul", a, a)
    /\ tape[y].fn = BinaryFn("Mul", m, a)
    /\ tape[a].grad = 24
    /\ calls = 2

---------------------------------------------------------------------------
(* C2, as amended: a result of an operation with at least one operand that  *)
(* is not leaf-inert is a derived scalar for good: it is never a leaf, and  *)
(* requires_grad(b) on it exits the process and changes nothing.  A result  *)
(* of an operation whose operands were all leaf-inert is a leaf-inert       *)
(* scalar, which requires_grad(true) may turn leaf-accumulating.            *)
C2_DerivedStaysDerived ==
  /\ [](\A c \in Ids(tape) :
         /\ origin[c] = "op" => ~is_leaf(tape, c)
         /\ origin[c] = "op_inert" => is_leaf(tape, c))
  /\ [][\A c \in Ids(tape), b \in BOOLEAN :
          (RequiresGrad(c, b) /\ origin[c] = "op") =>
             (diag' = LeafMsg /\ tape' = tape)]_vars

\* requires_grad was called on a derived result and the process exited
C2_Witness ==
  /\ diag = LeafMsg
  /\ \E c \in Ids(tape) : origin[c] = "op"

\* C2 as stated: no result of an operation ever becomes leaf-accumulating
C2_Original ==
  \A c \in Ids(tape) : origin[c] \in {"op", "op_inert"} => ~is_acc_fn(tape, c)

---------------------------------------------------------------------------
(* C3, as amended: the descriptor of a scalar changes only in a             *)
(* requires_grad call on that scalar: requires_grad(true) turns a           *)
(* leaf-inert scalar leaf-accumulating and requires_grad(false) turns a     *)
(* leaf-accumulating scalar leaf-inert again; construction, update,         *)
(* zero_grad and backward never change the kind of an existing scalar.      *)
C3_KindChangesOnlyByRequiresGrad ==
  [][\A c \in Ids(tape) :
       /\ tape'[c].fn # tape[c].fn =>
            \E b \in BOOLEAN : RequiresGrad(c, b) /\ is_leaf(tape, c)
       /\ \A b \in BOOLEAN :
            (RequiresGrad(c, b) /\ is_leaf(tape, c)) =>
               tape'[c].fn = (IF b THEN AccFn(c) ELSE NoneFn)]_vars

\* a leaf that received a gradient while accumulating and is inert now
C3_Witness ==
  \E c \in Ids(tape) :
    origin[c] = "leaf" /\ is_none_fn(tape, c) /\ tape[c].grad # 0

\* C3 as stated: a leaf-accumulating scalar stays leaf-accumulating
C3_Original ==
  [][\A c \in Ids(tape) : is_acc_fn(tape, c) => is_acc_fn(tape', c)]_vars

---------------------------------------------------------------------------
(* C5: a / b with b.value = 0 exits the process with the division          *)
(* diagnostic and builds no result; backward(g) that traverses a division  *)
(* node whose divisor holds 0 at that time exits the process in the same   *)
(* way.                                                                     *)
ZeroDivisorUnder(T, c) ==
  \E d \in Reach(T, c) : T[d].fn.op = "Div" /\ T[T[d].fn.r].value = 0

C5_DivisionByZeroIsFatal ==
  [][\A a, b \in Ids(tape) :
       /\ (BinaryOp("Div", a, b, MaxNodes) /\ tape[b].value = 0) =>
             (diag' = DivMsg /\ tape' = tape)
       /\ \A g \in Seeds :
            (Backward(a, g) /\ ZeroDivisorUnder(tape, a)) => diag' = DivMsg]_vars

\* the tape is full, so the exit came from a backward call, through a
\* division node whose divisor was set to 0 after the forward pass
C5_Witness ==
  /\ diag = DivMsg
  /\ Len(tape) = MaxNodes
  /\ \E d \in Ids(tape) : tape[d].fn.op = "Div" /\ tape[tape[d].fn.r].value = 0

---------------------------------------------------------------------------
(* C4, as amended: as long as requires_grad is never called on the result   *)
(* of an operation whose operands were all leaf-inert, and                  *)
(* requires_grad(true) is never called on a leaf-inert scalar that has      *)
(* already been an operand of such an operation, the reference engine that  *)
(* records a derived node for every operation runs the same sequence        *)
(* without exiting and holds the same gradient in every scalar.             *)
GradsAgree == \A n \in Ids(tape) : tape[n].grad = refTape[n].grad

C4_ShortCircuitPreservesGrads ==
  ~lateToggle => (~refAborted /\ GradsAgree)

\* a gradient reached an accumulating leaf through a node that has a
\* short-circuited operand
C4_Witness ==
  /\ ~lateToggle
  /\ \E n, s, p \in Ids(tape) :
       /\ ShortCircuited(s)
       /\ tape[n].fn.op \in BinOps
       /\ {tape[n].fn.l, tape[n].fn.r} = {s, p}
       /\ is_acc_fn(tape, p)
       /\ tape[p].grad # 0

\* C4 as stated: for every sequence, while both engines run, the gradients
\* of the two engines are the same
C4_Original == (~Aborted /\ ~refAborted) => GradsAgree

---------------------------------------------------------------------------
(* C6, as amended: normalizing a zero-length Vec3, with normalize() or     *)
(* through the Ray constructor, is fatal: norm() is 0, the division exits  *)
(* the process with the division diagnostic, and no vector, NaN or other,  *)
(* is produced.  A Vec3 with a NaN component normalizes to a vector that   *)
(* isNaN() detects, and the process goes on.                               *)
C6_NormalizeZeroIsFatal ==
  [][\A i \in 1..Len(vecs) :
       (VecNormalize(i) \/ \E o \in 1..Len(vecs) : RayCtor(o, i)) =>
          /\ ZeroLength(tape, vecs[i]) =>
               (diag' = DivMsg /\ vecs' = vecs /\ rays' = rays)
          /\ VecIsNaN(tape, vecs[i]) =>
               (diag' = "" /\ VecIsNaN(tape', vecs'[Len(vecs')]))]_vars

\* a zero vector was built and normalizing it ended the process
C6_Witness ==
  /\ diag = DivMsg
  /\ calls = 0
  /\ \E i \in 1..Len(vecs) : ZeroLength(tape, vecs[i])

\* C6 as stated: normalizing a zero-length Vec3 does not end the process
\* and yields a vector that isNaN() detects
C6_Original ==
  [][\A i \in 1..Len(vecs) :
       ((VecNormalize(i) \/ \E o \in 1..Len(vecs) : RayCtor(o, i))
           /\ ZeroLength(tape, vecs[i])) =>
          (diag' = "" /\ Len(vecs') = Len(vecs) + 1
             /\ VecIsNaN(tape', vecs'[Len(vecs')]))]_vars

---------------------------------------------------------------------------
(* C7: all references to one tracked scalar share its value, grad and      *)
(* kind.  Handles and optimizer entries that were copied or assigned from  *)
(* one another observe the same value, grad and backward kind after any    *)
(* sequence of update, zero_grad, requires_grad, backward and optimizer    *)
(* zero_grad / step made through any of them.                              *)
Observed(c) == <<tape[c].value, tape[c].grad, tape[c].fn.op>>

C7_ReferencesShareCtx ==
  /\ \A h, g \in Handles : ident[h] = ident[g] => Observed(refs[h]) = Observed(refs[g])
  /\ \A k \in 1..Len(params) : \A h \in Handles :
        pident[k] = ident[h] => Observed(params[k]) = Observed(refs[h])

\* a scalar held by two handles and the optimizer, after a deposit and a step
C7_Witness ==
  /\ ~Aborted
  /\ \E h, g \in Handles : \E k \in 1..Len(params) :
       /\ h # g
       /\ ident[h] = ident[g]
       /\ pident[k] = ident[h]
       /\ is_acc_fn(tape, refs[h])
       /\ tape[refs[h]].grad = 1
       /\ tape[refs[h]].value = 1
       /\ calls = 2

---------------------------------------------------------------------------
(* C9, as stated: at a non-emissive hit where a lobe was selected, the     *)
(* radiance Li returns is the indirect term plus, for every point light of *)
(* the scene that is not occluded from the hit, light.power * fr / r^2.    *)
(* The next-event term is taken from the specification; the hit is at unit *)
(* distance from every light.                                              *)
RECURSIVE PointLightNEE(_, _)
PointLightNEE(fr, k) ==
  IF k > Len(lights) THEN Zero3
  ELSE V3Add(IF lights[k].occluded THEN Zero3
             ELSE [c \in 1..3 |-> FxDiv(FxMul(lights[k].pow[c], fr[c]), One)],
             PointLightNEE(fr, k + 1))

C9_Original ==
  [][\A path \in Paths(job.depth) :
       (TraceSample(path) /\ Scatters(path, job.depth) /\ diag' = "") =>
          job'.L = V3Add(job.L,
                     V3Add(Li(path, 1, job.depth).v,
                           PointLightNEE(Throughput(RR(mats[path[1].m], path[1].p)), 1)))]_vars

---------------------------------------------------------------------------
(* C10: in a scene where no material has a positive emission channel,      *)
(* render with any depth >= 0 and spp >= 1 runs to the end and stores the  *)
(* zero vector in every pixel.                                             *)
NoEmitters == \A m \in 1..Len(mats) : Max3(mats[m].emission) <= 0

C10_NoEmittersRenderZero ==
  (NoEmitters /\ job.st # "idle" /\ job.spp >= 1) =>
     /\ ~Aborted
     /\ job.L = Zero3
     /\ \A i \in 1..Len(image) : image[i] = Zero3
     /\ job.st = "done" => Len(image) = NumPixels

\* a finished render of a scene of scattering, non-emitting materials in
\* which some path was scattered
C10_Witness ==
  /\ job.st = "done"
  /\ job.depth = MaxDepth
  /\ job.spp = MaxSpp
  /\ job.scat
  /\ Len(mats) = MaxMats
  /\ NoEmitters
  /\ \E m \in 1..Len(mats) : mats[m].emission # Zero3
  /\ Len(image) = NumPixels
  /\ \A i \in 1..Len(image) : image[i] = Zero3

---------------------------------------------------------------------------
(* C8: in every iteration of the training loop the events occur in the     *)
(* order zero_grad, forward render, loss, backward, step; the gradient is  *)
(* zero from zero_grad until the backward pass, and no parameter value     *)
(* changes between the forward render that read it and the end of the      *)
(* backward pass.                                                          *)
IterationOrder == <<"zero_grad", "render", "loss", "backward", "step">>

C8_TrainingLoopOrder ==
  /\ Len(events) <= 5
  /\ \A k \in 1..Len(events) : events[k] = IterationOrder[k]
  /\ Len(events) \in 1..3 => \A k \in 1..Len(params) : tape[params[k]].grad = 0
  /\ Len(events) \in 2..4 => \A k \in 1..Len(params) : tape[params[k]].value = snap[k]

\* the last iteration, after its backward pass and before its step, with a
\* parameter that an earlier step has moved and a gradient deposited
C8_Witness ==
  /\ pc = "step"
  /\ iter = MaxIters
  /\ events = <<"zero_grad", "render", "loss", "backward">>
  /\ tape[TheParam].grad # 0
  /\ tape[TheParam].value \notin ParamVals
  /\ tape[TheParam].value = snap[1]

---------------------------------------------------------------------------
(* C12: add_param registers only leaf-accumulating scalars: a call that     *)
(* names a derived or a leaf-inert scalar exits the process and appends     *)
(* nothing, so a step that lengthens the parameter list appends a           *)
(* leaf-accumulating scalar.                                                *)
C12_Original ==
  [][Len(params') = Len(params) + 1 =>
       (~Aborted' /\ is_acc_fn(tape', params'[Len(params')]))]_vars

---------------------------------------------------------------------------
(* C19, as amended: backward(g) writes only grad slots of leaf-accumulating *)
(* scalars.  It leaves the value and the backward descriptor of every       *)
(* scalar unchanged, and the grad slot of every leaf-inert and every        *)
(* derived scalar unchanged; the grad of a derived scalar is 0 at all       *)
(* times.  (A leaf-inert scalar keeps whatever grad it had.)                *)
BackwardFrame(c, g) ==
  Backward(c, g) =>
    \A n \in Ids(tape) :
      /\ tape'[n].value = tape[n].value
      /\ tape'[n].fn = tape[n].fn
      /\ ~is_acc_fn(tape, n) => tape'[n].grad = tape[n].grad

C19_BackwardWritesOnlyLeafGrads ==
  /\ [][\A c \in Ids(tape), g \in Seeds : BackwardFrame(c, g)]_vars
  /\ [](\A n \in Ids(tape) : ~is_leaf(tape, n) => tape[n].grad = 0)

\* backward ran from a derived scalar over an accumulating and an inert leaf
C19_Witness ==
  /\ calls > 0
  /\ ~Aborted
  /\ \E n, a, b \in Ids(tape) :
       /\ ~is_leaf(tape, n)
       /\ tape[n].fn.l = a /\ tape[n].fn.r = b
       /\ is_acc_fn(tape, a) /\ tape[a].grad # 0
       /\ is_none_fn(tape, b) /\ tape[b].grad = 0

\* C19 as stated: after backward every leaf-inert and derived grad is 0
C19_Original ==
  [][\A c \in Ids(tape), g \in Seeds :
       /\ BackwardFrame(c, g)
       /\ Backward(c, g) =>
            \A n \in Ids(tape) : ~is_acc_fn(tape, n) => tape'[n].grad = 0]_vars

---------------------------------------------------------------------------
(* C17, as amended: at the start of every iteration after the first, the    *)
(* scalars of the previous iteration's loss and backward pass are no longer *)
(* referenced (loss is local to the loop body), the leaf parameters persist,*)
(* and the derived scalars of the previous render are still referenced by   *)
(* the pred buffer, which lives until the next render overwrites it.        *)
Roots == ({TheParam, TheTarget, held.pred, held.loss} \ {0}) \cup
         {params[k] : k \in 1..Len(params)}
\* the Ctxs some live object still leads to
Live == UNION {Reach(tape, c) : c \in Roots}
IterationStart == pc = "zero_grad" /\ iter > 1

---------------------------------------------------------------------------
(* C11: SGD::step updates every registered parameter i by                   *)
(* g = grad_i + lambda * value_i, v_i <- mu * v_i - lr * g, value_i += v_i, *)
(* where v_i starts at 0 and is carried across steps (and counts as 0 when  *)
(* mu = 0, which makes the step value_i -= lr * g); step leaves every grad  *)
(* unchanged.  From a = 5, L = a^2, lr = 0.1, lambda = 0: one step with     *)
(* mu = 0 gives 4.0; with mu = 0.9 the first step gives 4.0 and, after      *)
(* zero_grad and backward, the second gives 2.3.                            *)
StepRule(k) ==
  LET i == params[k]
      g == tape[i].grad + UMul(hyper.lambda, tape[i].value)
      v0 == IF hyper.momentum > 0 THEN vel[k] ELSE 0
      v1 == UMul(hyper.momentum, v0) - UMul(hyper.lr, g)
  IN /\ tape'[i].value = tape[i].value + v1
     /\ tape'[i].grad = tape[i].grad
     /\ hyper.momentum > 0 => vel'[k] = v1

Ran(log) == events = [j \in 1..Len(log) |-> [op |-> log[j][1], v |-> log[j][2]]]
OneStep == <<<<"add_param", 50>>, <<"backward", 0>>, <<"step", 0>>>>
TwoSteps == OneStep \o <<<<"zero_grad", 0>>, <<"backward", 0>>, <<"step", 0>>>>

C11_SgdMomentumStep ==
  /\ [][OptStep => \A k \in 1..Len(params) : StepRule(k)]_vars
  /\ [][OptAddParam => (hyper.momentum > 0 => vel'[Len(vel')] = 0)]_vars
  /\ []((hyper.lr = 1 /\ hyper.lambda = 0 /\ Ran(OneStep)) => tape[1].value = 40)
  /\ []((hyper.lr = 1 /\ hyper.lambda = 0 /\ hyper.momentum = 9 /\ Ran(TwoSteps)) =>
           (tape[1].value = 23 /\ vel[1] = -17))

\* two momentum steps from a = 5 have been taken
C11_Witness ==
  /\ hyper.lr = 1 /\ hyper.lambda = 0 /\ hyper.momentum = 9
  /\ Ran(TwoSteps)
  /\ tape[1].value = 23

---------------------------------------------------------------------------
(* C18, as amended: Scene::intersect returns true exactly when at least one *)
(* primitive accepts the ray with a t that is not NaN; the returned hit     *)
(* then has the smallest such t and the normal and material of the first    *)
(* primitive in the list that produced it.  Otherwise it returns false and  *)
(* leaves the caller's hit record unmodified.                               *)
Usable(i) == prims[i].acc /\ ~IsNaNv(prims[i].t)
Nearest(i) == Usable(i) /\ \A j \in 1..Len(prims) : Usable(j) => prims[i].t <= prims[j].t
FirstNearest(i) == Nearest(i) /\ \A j \in 1..(i - 1) : ~Nearest(j)

C18_SceneIntersectNearest ==
  [][SceneIntersect =>
       /\ scan'.ret = (\E i \in 1..Len(prims) : Usable(i))
       /\ scan'.ret =>
            \E i \in 1..Len(prims) :
              /\ FirstNearest(i)
              /\ scan'.hit = [t |-> prims[i].t, n |-> prims[i].n, mat |-> prims[i].mat]
       /\ ~scan'.ret => scan'.hit = scan.hit]_vars

\* the nearer of two accepting primitives was added last and was returned
C18_Witness ==
  /\ Len(prims) = 2
  /\ prims[1].acc /\ prims[2].acc
  /\ prims[1].t = 2 /\ prims[2].t = 1
  /\ prims[1].mat # prims[2].mat
  /\ scan = [ret |-> TRUE, hit |-> [t |-> 1, n |-> prims[2].n, mat |-> prims[2].mat]]

\* C18 as stated: true exactly when some primitive's intersect accepts
C18_Original ==
  [][SceneIntersect =>
       /\ scan'.ret = (\E i \in 1..Len(prims) : prims[i].acc)
       /\ ~scan'.ret => scan'.hit = scan.hit]_vars

---------------------------------------------------------------------------
(* C14, as amended: for every permutation of the primitive list,            *)
(* Scene::intersect returns the same found flag and the same t (hence the   *)
(* same position).  The normal and the material are the same too unless     *)
(* two primitives attain the smallest t with different normals or           *)
(* materials: the comparison is strict, so the one added first wins a tie.  *)
Permuted(q) == [i \in 1..Len(prims) |-> prims[q[i]]]
TieFree ==
  \A i, j \in 1..Len(prims) :
    (Nearest(i) /\ Nearest(j)) => (prims[i].n = prims[j].n /\ prims[i].mat = prims[j].mat)

C14_OrderMattersOnlyInTies ==
  \A q \in Permutations(1..Len(prims)) :
    LET R == SceneIntersectOf(prims, scan.hit)
        Rq == SceneIntersectOf(Permuted(q), scan.hit)
    IN /\ Rq.ret = R.ret
       /\ Rq.hit.t = R.hit.t
       /\ TieFree => Rq = R
       /\ R.ret => \E i \in 1..Len(prims) : FirstNearest(i) /\ R.hit.mat = prims[i].mat

\* two accepting primitives at different distances were scanned
C14_Witness ==
  /\ Len(prims) = 2
  /\ prims[1].acc /\ prims[2].acc
  /\ prims[1].t = 1 /\ prims[2].t = 2
  /\ prims[1].mat # prims[2].mat
  /\ calls > 0
  /\ scan.ret /\ scan.hit.mat = prims[1].mat

\* C14 as stated: every permutation returns the same flag and the same hit
C14_Original ==
  \A q \in Permutations(1..Len(prims)) :
    SceneIntersectOf(Permuted(q), scan.hit) = SceneIntersectOf(prims, scan.hit)

---------------------------------------------------------------------------
(* C13: whenever Material::rr is called, the weights it compares the draw   *)
(* against are the maximum channels of the lobes' current albedos.          *)
C13_Original ==
  [][sel'.n # sel.n =>
       sel'.w = <<Max3(mats[sel'.m].kd), Max3(mats[sel'.m].ks), Max3(mats[sel'.m].kr)>>]_vars

---------------------------------------------------------------------------
(* C20: Material::rr never returns a lobe with a selection probability that *)
(* is zero or negative, whatever the weights and the draw, so dividing by   *)
(* it never exits with "Division by zero!"; absorption is the only outcome  *)
(* reported with probability 0.                                             *)
C20_SelectedLobeHasPositiveProb ==
  /\ sel.lobe # "none" => sel.prob > 0
  /\ sel.lobe = "none" => sel.prob = 0
  /\ diag # DivMsg

\* a lobe was selected past a negative diffuse weight
C20_Witness ==
  /\ sel.n > 0
  /\ sel.w[1] < 0
  /\ sel.lobe = "s"
  /\ sel.prob > 0

---------------------------------------------------------------------------
(* C15: two renders of the same scene with the same width, height and spp,  *)
(* run one after the other on one thread with the same seed, use the same   *)
(* random draws, sample for sample, and so fill identical pixel buffers.    *)
C15_Original ==
  \A i, j \in 1..Len(frames) :
    (frames[i].w = frames[j].w /\ frames[i].h = frames[j].h /\ frames[i].spp = frames[j].spp)
      => frames[i].buf = frames[j].buf

---------------------------------------------------------------------------
(* C16: every camera sample of pixel (x, y) lies in that pixel's footprint: *)
(* x / width <= u < (x + 1) / width and y / height <= v < (y + 1) / height. *)
InFootprint(smp) ==
  /\ smp.x * Sub <= smp.u /\ smp.u < (smp.x + 1) * Sub
  /\ smp.y * Sub <= smp.v /\ smp.v < (smp.y + 1) * Sub

C16_Original ==
  \A k \in 1..Len(cam.buf) : InFootprint(cam.buf[k])

=============================================================================
